---- MODULE Spec2Model ----
(***************************************************************************)
(* netMonitor (src/src/main.go): a driver loop that samples the byte       *)
(* counters of one interface, accumulates them into per-cycle totals held  *)
(* in the config record, closes the billing cycle on the configured day of *)
(* the month, and sends a warning / powers the host off when the usage     *)
(* crosses the configured limits.                                          *)
(*                                                                         *)
(* Scaling.  Byte quantities are counted in units of 512 MiB, so that      *)
(* bytesToGB is 2 units, and the uint64 fields are kept in a word of       *)
(* Modulus values with the same wrapping arithmetic.  The float64 values   *)
(* Threshold and Ratio are held as integer percentages and the float       *)
(* comparisons are done on cross-multiplied integers.  Instants are hours  *)
(* of local wall-clock time since 2024-01-01 00:00.                        *)
(***************************************************************************)
EXTENDS Integers, Sequences, FiniteSets, TLC

VARIABLES
    config,      \* the in-memory Config record of main (main.go:405)
    disk,        \* the content of the config file, as last written by saveConfig
    pc,          \* position of the driver loop: "check", "sample", "sleep", "off"
    now,         \* time.Now(), local wall-clock hours
    env,         \* what stays fixed in a behaviour: the time zone (time.Local,
                 \* hours east of UTC), the instants the clock visits, and
                 \* whether the received bytes are metered in cycleRx, todayRx
    netdev,      \* /proc/net/dev counters of the interface
    act,         \* history: what the current loop iteration has done so far
    pre,         \* history: config at the start of the current loop iteration
    delivered,   \* history: warnings delivered and power-off commands run
                 \* in the current cycle
    faults,      \* environment: saveConfig calls that are still going to fail
    cycleRx,     \* history: bytes received since 00:00 of config's LastReset day
    todayRx,     \* history: bytes received since 00:00 of today
    lost         \* history: from a restart of the process until the end of
                 \* the first loop iteration that reads the counters, the
                 \* in-memory record the restart discarded (a sequence of
                 \* one record); empty otherwise

vars == <<config, disk, pc, now, env, netdev, act, pre, delivered, faults,
          cycleRx, todayRx, lost>>

(***************************************************************************)
(* Bounds of the model.                                                    *)
(***************************************************************************)
MaxCounter == 2        \* the interface counters stay within 0..MaxCounter
MaxTotal == 3          \* bytes accounted to one cycle, per direction

(***************************************************************************)
(* Program constants.                                                      *)
(***************************************************************************)
bytesToGB == 2
Modulus == 16          \* number of values of a uint64 field (scaled)
BaseYear == 2024

\* a last_reset string that time.Parse rejects (the empty string of a new record)
NoDate == [y |-> 0, m |-> 0, d |-> 0]

Add(a, b) == (a + b) % Modulus
Sub(a, b) == (a - b + Modulus) % Modulus

(***************************************************************************)
(* package time, as far as checkReset and resetStatistics use it.          *)
(***************************************************************************)
IsLeap(y) == (y % 4 = 0 /\ y % 100 # 0) \/ y % 400 = 0

DaysIn(y, m) ==
    IF m = 2 THEN (IF IsLeap(y) THEN 29 ELSE 28)
    ELSE IF m \in {4, 6, 9, 11} THEN 30 ELSE 31

RECURSIVE DaysBefore(_, _)
\* days from BaseYear-01-01 to the first of month m of year y
DaysBefore(y, m) ==
    IF y = BaseYear /\ m = 1 THEN 0
    ELSE IF m = 1 THEN DaysBefore(y - 1, 12) + DaysIn(y - 1, 12)
    ELSE DaysBefore(y, m - 1) + DaysIn(y, m - 1)

\* time.Date(y, m, d, 0, 0, 0, 0, time.Local); d out of range is normalised
DateLocal(y, m, d) == (DaysBefore(y, m) + d - 1) * 24

RECURSIVE FromDays(_, _, _)
FromDays(y, m, n) ==
    IF n < DaysIn(y, m) THEN [y |-> y, m |-> m, d |-> n + 1]
    ELSE IF m = 12 THEN FromDays(y + 1, 1, n - DaysIn(y, m))
    ELSE FromDays(y, m + 1, n - DaysIn(y, m))

\* t.Format("2006-01-02"): the local calendar date of instant t
Format(t) == FromDays(BaseYear, 1, t \div 24)

\* time.Parse("2006-01-02", s): err # nil, or 00:00 UTC of the date
ParseFails(s) == s.m \notin 1..12 \/ s.d \notin 1..DaysIn(s.y, s.m)
Parse(s) == DateLocal(s.y, s.m, s.d) + env.Local

\* checkReset without lines 131-135: the start day is not clamped, and
\* time.Date normalises a day past the end of the month into the next month
checkResetUnclamped(cfg, t) ==
    IF ParseFails(cfg.Statistics.LastReset) THEN TRUE
    ELSE
        LET lastReset == Parse(cfg.Statistics.LastReset)
            today == Format(t)
            resetDate == DateLocal(today.y, today.m, cfg.StartDay)
        IN lastReset < resetDate /\ t > resetDate

\* Check if the statistics need to be reset (checkReset), t = time.Now()
checkReset(cfg, t) ==
    IF ParseFails(cfg.Statistics.LastReset) THEN TRUE
    ELSE
        LET lastReset == Parse(cfg.Statistics.LastReset)
            today == Format(t)
            lastDayOfMonth == DaysIn(today.y, today.m)
            resetDay == IF cfg.StartDay > lastDayOfMonth THEN lastDayOfMonth
                        ELSE cfg.StartDay
            resetDate == DateLocal(today.y, today.m, resetDay)
        IN lastReset < resetDate /\ t > resetDate

\* Categories of a switch that has a case for one more name
CategoriesOneMore == {"download", "upload", "upload+download", "anymax", "total"}

\* lines 159-173, 307-321: the four categories the switch knows
Categories == {"download", "upload", "upload+download", "anymax"}

\* sendMessage: the channels of the switch; any other service is an error
Services == {"telegram", "gotify"}

\* the results sendMessage can return for cfg
sendMessage(cfg) ==
    IF cfg.Message.Service \in Services THEN {"ok", "fail"} ELSE {"fail"}

\* accumulate without lines 444-451: a drop of the counter is not folded in
accumulateNoFold(total, last, value) == Add(total, Sub(value, last))

\* accumulate that adds the sample itself instead of its distance to last
accumulateNoBaseline(total, last, value) == Add(total, value)

\* accumulate whose subtraction stops at zero instead of wrapping
accumulateSaturating(total, last, value) ==
    LET folded == IF value < last THEN Add(total, last) ELSE total
    IN Add(folded, IF value < last THEN 0 ELSE value - last)

\* main, lines 443-455, for one counter: the new total
accumulate(total, last, value) ==
    LET folded == IF value < last THEN Add(total, last) ELSE total
    IN Add(folded, Sub(value, last))

\* main, lines 443-459: config after the sample stats has been accounted
accumulateStats(cfg, stats) ==
    [cfg EXCEPT
        !.Statistics.TotalReceive =
            accumulate(@, cfg.Statistics.LastReceive, stats.ReceiveBytes),
        !.Statistics.TotalTransmit =
            accumulate(@, cfg.Statistics.LastTransmit, stats.TransmitBytes),
        !.Statistics.LastReceive = stats.ReceiveBytes,
        !.Statistics.LastTransmit = stats.TransmitBytes]

\* resetStatistics without lines 210-211: the Telegram flags are kept
resetStatisticsKeepsFlags(cfg, today) ==
    [cfg EXCEPT
        !.Statistics.TotalReceive = 0,
        !.Statistics.TotalTransmit = 0,
        !.Statistics.LastReset = today,
        !.Message.Gotify.ThresholdStatus = FALSE,
        !.Message.Gotify.RatioStatus = FALSE]

\* resetStatistics that also zeroes the last values of the counters
resetStatisticsClearsLast(cfg, today) ==
    [cfg EXCEPT
        !.Statistics.TotalReceive = 0,
        !.Statistics.TotalTransmit = 0,
        !.Statistics.LastReceive = 0,
        !.Statistics.LastTransmit = 0,
        !.Statistics.LastReset = today,
        !.Message.Telegram.ThresholdStatus = FALSE,
        !.Message.Telegram.RatioStatus = FALSE,
        !.Message.Gotify.ThresholdStatus = FALSE,
        !.Message.Gotify.RatioStatus = FALSE]

\* resetStatistics, lines 202-215: config after the reset, today = time.Now()
resetStatistics(cfg, today) ==
    [cfg EXCEPT
        !.Statistics.TotalReceive = 0,
        !.Statistics.TotalTransmit = 0,
        !.Statistics.LastReset = today,
        !.Message.Telegram.ThresholdStatus = FALSE,
        !.Message.Telegram.RatioStatus = FALSE,
        !.Message.Gotify.ThresholdStatus = FALSE,
        !.Message.Gotify.RatioStatus = FALSE]

Max(a, b) == IF a >= b THEN a ELSE b

\* performComparison, lines 307-321: valueInGB * bytesToGB
usage(cfg) ==
    LET st == cfg.Statistics
    IN CASE cfg.Comparison.Category = "download" -> st.TotalReceive
         [] cfg.Comparison.Category = "upload" -> st.TotalTransmit
         [] cfg.Comparison.Category = "upload+download" ->
                Add(st.TotalReceive, st.TotalTransmit)
         [] OTHER -> Max(st.TotalReceive, st.TotalTransmit)

\* valueInGB >= Limit * fraction, with fraction = pct / 100
reached(cfg, pct) ==
    usage(cfg) * 100 >= cfg.Comparison.Limit * pct * bytesToGB

\* performComparison, lines 327-334: the flags of the configured service
thresholdStatus(cfg) ==
    IF cfg.Message.Service = "telegram" THEN cfg.Message.Telegram.ThresholdStatus
    ELSE IF cfg.Message.Service = "gotify" THEN cfg.Message.Gotify.ThresholdStatus
    ELSE FALSE

ratioStatus(cfg) ==
    IF cfg.Message.Service = "telegram" THEN cfg.Message.Telegram.RatioStatus
    ELSE IF cfg.Message.Service = "gotify" THEN cfg.Message.Gotify.RatioStatus
    ELSE FALSE

\* thresholdDue without the test of the flag
thresholdDueAgain(cfg) == reached(cfg, cfg.Comparison.Threshold)

\* ratioDue with > in the place of >=
ratioDueAbove(cfg) ==
    /\ usage(cfg) * 100 > cfg.Comparison.Limit * cfg.Comparison.Ratio * bytesToGB
    /\ ~ratioStatus(cfg)

\* line 337 and line 359: the conditions under which a warning is sent
thresholdDue(cfg) ==
    reached(cfg, cfg.Comparison.Threshold) /\ ~thresholdStatus(cfg)

ratioDue(cfg) ==
    reached(cfg, cfg.Comparison.Ratio) /\ ~ratioStatus(cfg)

\* setRatioStatus that leaves the flag as it is
setRatioStatusNever(cfg) == cfg

\* setRatioStatus that writes the channel's flags anew, the warning flag too
setRatioStatusOnly(cfg) ==
    IF cfg.Message.Service = "telegram"
    THEN [cfg EXCEPT !.Message.Telegram =
                        [ThresholdStatus |-> FALSE, RatioStatus |-> TRUE]]
    ELSE IF cfg.Message.Service = "gotify"
    THEN [cfg EXCEPT !.Message.Gotify =
                        [ThresholdStatus |-> FALSE, RatioStatus |-> TRUE]]
    ELSE cfg

\* lines 344-348 and 366-370
setThresholdStatus(cfg) ==
    IF cfg.Message.Service = "telegram"
    THEN [cfg EXCEPT !.Message.Telegram.ThresholdStatus = TRUE]
    ELSE IF cfg.Message.Service = "gotify"
    THEN [cfg EXCEPT !.Message.Gotify.ThresholdStatus = TRUE]
    ELSE cfg

setRatioStatus(cfg) ==
    IF cfg.Message.Service = "telegram"
    THEN [cfg EXCEPT !.Message.Telegram.RatioStatus = TRUE]
    ELSE IF cfg.Message.Service = "gotify"
    THEN [cfg EXCEPT !.Message.Gotify.RatioStatus = TRUE]
    ELSE cfg

(***************************************************************************)
(* The environment: the clock, the interface and its traffic.              *)
(***************************************************************************)
NoAct == [summary |-> "none", read |-> "none", threshold |-> "none",
          ratio |-> "none", poweroff |-> "none"]

NoneSent == [threshold |-> 0, ratio |-> 0, poweroff |-> 0]

\* what the next sample would add to a total: lines 443-455 with total = 0
delta(last, value) == accumulate(0, last, value)

Clock ==
    /\ pc = "check"
    /\ \E t \in env.Times :
        /\ t > now
        /\ now' = t
        /\ todayRx' = IF Format(t) = Format(now) THEN todayRx ELSE 0
    /\ UNCHANGED <<config, disk, pc, env, netdev, act, pre, delivered,
                   faults, cycleRx, lost>>

Receive ==
    /\ pc = "check"
    /\ netdev.ReceiveBytes < MaxCounter
    /\ env.meter => cycleRx < MaxTotal
    /\ config.Statistics.TotalReceive
         + delta(config.Statistics.LastReceive, netdev.ReceiveBytes + 1) <= MaxTotal
    /\ netdev' = [netdev EXCEPT !.ReceiveBytes = @ + 1]
    /\ cycleRx' = IF env.meter THEN cycleRx + 1 ELSE cycleRx
    /\ todayRx' = IF env.meter THEN todayRx + 1 ELSE todayRx
    /\ UNCHANGED <<config, disk, pc, now, env, act, pre, delivered, faults,
                   lost>>

\* transmitted bytes come in one burst that fills the counter's range
Transmit ==
    /\ pc = "check"
    /\ netdev.TransmitBytes = 0
    /\ config.Statistics.TotalTransmit
         + delta(config.Statistics.LastTransmit, MaxCounter) <= MaxTotal
    /\ netdev' = [netdev EXCEPT !.TransmitBytes = MaxCounter]
    /\ UNCHANGED <<config, disk, pc, now, env, act, pre, delivered, faults,
                   cycleRx, todayRx, lost>>

\* the interface is re-created or the kernel restarts: the counters start at 0
CounterReset ==
    /\ pc = "check"
    /\ netdev # [ReceiveBytes |-> 0, TransmitBytes |-> 0]
    /\ netdev' = [ReceiveBytes |-> 0, TransmitBytes |-> 0]
    /\ UNCHANGED <<config, disk, pc, now, env, act, pre, delivered, faults,
                   cycleRx, todayRx, lost>>

(***************************************************************************)
(* The driver loop of main, lines 429-481.                                 *)
(***************************************************************************)
\* the results of a saveConfig call: written, or (boundedly often) failed
saveConfig == IF faults > 0 THEN {TRUE, FALSE} ELSE {TRUE}

\* lines 431-434, checkReset returns true: resetStatistics
MainReset ==
    /\ pc = "check"
    /\ checkReset(config, now)
    /\ \E summary \in sendMessage(config), saved \in saveConfig :
        /\ config' = resetStatistics(config, Format(now))
        /\ disk' = IF saved THEN config' ELSE disk
        /\ faults' = IF saved THEN faults ELSE faults - 1
        /\ act' = [NoAct EXCEPT !.summary = summary]
    /\ pc' = "sample"
    /\ delivered' = NoneSent
    /\ cycleRx' = todayRx
    /\ UNCHANGED <<now, env, netdev, pre, todayRx, lost>>

\* lines 431-434, checkReset returns false
MainNoReset ==
    /\ pc = "check"
    /\ ~checkReset(config, now)
    /\ act' = NoAct
    /\ pc' = "sample"
    /\ UNCHANGED <<pre, config, disk, now, env, netdev, delivered, faults,
                   cycleRx, todayRx, lost>>

\* MainReadError without the continue of line 440: the zero NetStats that
\* readNetworkStats returns with its error is accounted
MainReadErrorAccounted ==
    /\ pc = "sample"
    /\ config' = accumulateStats(config, [ReceiveBytes |-> 0, TransmitBytes |-> 0])
    /\ disk' = config'
    /\ act' = [act EXCEPT !.read = "fail"]
    /\ pc' = "sleep"
    /\ UNCHANGED <<pre, now, env, netdev, delivered, faults, cycleRx, todayRx,
                   lost>>

\* lines 436-441: readNetworkStats fails, the iteration ends
MainReadError ==
    /\ pc = "sample"
    /\ act' = [act EXCEPT !.read = "fail"]
    /\ pc' = "sleep"
    /\ UNCHANGED <<pre, config, disk, now, env, netdev, delivered, faults,
                   cycleRx, todayRx, lost>>

\* lines 436-480: the sample is accounted and saved, then performComparison
MainSample ==
    /\ pc = "sample"
    /\ \E n1 \in sendMessage(config), n2 \in sendMessage(config),
          off \in {"ok", "fail"}, s1 \in saveConfig, s2 \in saveConfig,
          s3 \in saveConfig :
        LET c1 == accumulateStats(config, netdev)
            known == c1.Comparison.Category \in Categories
            thrSend == known /\ thresholdDue(c1)
            ratSend == known /\ ratioDue(c1)
            thrOk == thrSend /\ n1 = "ok"
            ratOk == ratSend /\ n2 = "ok"
            c2 == IF thrOk THEN setThresholdStatus(c1) ELSE c1
            c3 == IF ratOk THEN setRatioStatus(c2) ELSE c2
            d1 == IF s1 THEN c1 ELSE disk
            d2 == IF thrOk /\ s2 THEN c2 ELSE d1
            d3 == IF ratOk /\ s3 THEN c3 ELSE d2
            failed == (IF s1 THEN 0 ELSE 1)
                        + (IF thrOk /\ ~s2 THEN 1 ELSE 0)
                        + (IF ratOk /\ ~s3 THEN 1 ELSE 0)
        IN /\ failed <= faults
           /\ thrOk \/ s2
           /\ ratOk \/ (s3 /\ off = "fail")
           /\ thrSend \/ n1 = "fail"
           /\ ratSend \/ n2 = "fail"
           /\ config' = c3
           /\ disk' = d3
           /\ faults' = faults - failed
           /\ act' = [act EXCEPT !.read = "ok",
                                 !.threshold = IF thrSend THEN n1 ELSE "none",
                                 !.ratio = IF ratSend THEN n2 ELSE "none",
                                 !.poweroff = IF ratOk THEN off ELSE "none"]
           /\ delivered' =
                [threshold |-> delivered.threshold + (IF thrOk THEN 1 ELSE 0),
                 ratio |-> delivered.ratio + (IF ratOk THEN 1 ELSE 0),
                 poweroff |-> delivered.poweroff + (IF ratOk THEN 1 ELSE 0)]
           /\ pc' = IF ratOk /\ off = "ok" THEN "off" ELSE "sleep"
    /\ UNCHANGED <<now, env, netdev, pre, cycleRx, todayRx, lost>>

\* lines 439 and 480: time.Sleep, then the next iteration
MainSleep ==
    /\ pc = "sleep"
    /\ pc' = "check"
    /\ act' = NoAct
    /\ pre' = config
    /\ lost' = IF act.read = "ok" THEN << >> ELSE lost
    /\ UNCHANGED <<config, disk, now, env, netdev, delivered, faults,
                   cycleRx, todayRx>>

\* Restart of a process that takes the counters it finds as its last values
RestartFromCounters ==
    /\ config' = [disk EXCEPT !.Statistics.LastReceive = netdev.ReceiveBytes,
                              !.Statistics.LastTransmit = netdev.TransmitBytes]
    /\ lost' = IF lost = << >> \/ act.read = "ok" THEN << config >> ELSE lost
    /\ pre' = disk
    /\ act' = NoAct
    /\ pc' = "check"
    /\ netdev' = netdev
    /\ UNCHANGED <<disk, now, env, delivered, faults, cycleRx, todayRx>>

\* main, lines 399-427: the process, stopped at any point of the loop or with
\* the host powered off, is started again.  It loads the record of the file
\* and enters the loop once the interface can be read; a host that was
\* powered off has booted, so that its counters start at 0.
Restart ==
    /\ config' = disk
    /\ lost' = IF lost = << >> \/ act.read = "ok" THEN << config >> ELSE lost
    /\ pre' = disk
    /\ act' = NoAct
    /\ pc' = "check"
    /\ netdev' = IF pc = "off" THEN [ReceiveBytes |-> 0, TransmitBytes |-> 0]
                  ELSE netdev
    /\ UNCHANGED <<disk, now, env, delivered, faults, cycleRx, todayRx>>

Next ==
    \/ Clock
    \/ Receive
    \/ Transmit
    \/ CounterReset
    \/ MainReset
    \/ MainNoReset
    \/ MainReadError
    \/ MainSample
    \/ MainSleep

\* the record main loads when the file holds the settings and no statistics
NewConfig(startDay, category, service) ==
    [StartDay |-> startDay,
     Statistics |-> [TotalReceive |-> 0, TotalTransmit |-> 0, LastReceive |-> 0,
                     LastTransmit |-> 0, LastReset |-> NoDate],
     Comparison |-> [Category |-> category, Limit |-> 2, Threshold |-> 25,
                     Ratio |-> 50],
     Message |-> [Service |-> service,
                  Telegram |-> [ThresholdStatus |-> FALSE, RatioStatus |-> FALSE],
                  Gotify |-> [ThresholdStatus |-> FALSE, RatioStatus |-> FALSE]]]

InitWith(startDays, categories, services, zones, times, meter, budget) ==
    /\ \E sd \in startDays, c \in categories, s \in services :
        config = NewConfig(sd, c, s)
    /\ disk = config
    /\ pre = config
    /\ pc = "check"
    /\ now = DateLocal(2024, 1, 5) + 10
    /\ env \in [Local : zones, Times : {times}, meter : {meter}]
    /\ netdev \in [ReceiveBytes : 0..MaxCounter, TransmitBytes : {0, MaxCounter}]
    /\ act = NoAct
    /\ delivered = NoneSent
    /\ faults = budget
    /\ todayRx \in (IF meter THEN 0..netdev.ReceiveBytes ELSE {0})
    /\ cycleRx = todayRx
    /\ lost = << >>

\* the days on which the clock is read: the first run, the next boundary of
\* a cycle that starts on the 5th, and a day before the boundary after that
Days == { DateLocal(2024, 1, 5) + 10, DateLocal(2024, 2, 5) + 10,
          DateLocal(2024, 3, 3) + 10 }

\* every category with one channel, and one category with the other channel
\* and with a service sendMessage does not know; UTC; no write fails
Init ==
    \/ InitWith({5}, Categories \cup {"total"}, {"telegram"}, {0}, Days, FALSE, 0)
    \/ InitWith({5}, {"upload+download"}, {"gotify", "mail"}, {0}, Days, FALSE, 0)

Spec == Init /\ [][Next]_vars

\* the same program west of, at and east of UTC
InitZone ==
    InitWith({5}, {"download"}, {"telegram"}, {0 - 5, 0, 8}, Days, FALSE, 0)

SpecZone == InitZone /\ [][Next]_vars

\* the same program with the received bytes metered
InitMeter ==
    InitWith({5}, {"download"}, {"telegram"}, {0}, Days, TRUE, 0)

SpecMeter == InitMeter /\ [][Next]_vars

\* the last day of a month of 30 days, the day after, and the last day of
\* the month of 31 days that follows
ClampDays == { DateLocal(2024, 4, 30) + 10, DateLocal(2024, 5, 1) + 10,
               DateLocal(2024, 5, 31) + 10 }

\* a start day that some months do not have, west of, at and east of UTC
InitClamp ==
    InitWith({31}, {"download"}, {"telegram"}, {0 - 5, 0, 8}, ClampDays, FALSE, 0)

SpecClamp == InitClamp /\ [][Next]_vars

\* the accumulation over the whole range of a uint64 field: the record read
\* from the file holds any total and any last value of received bytes, the
\* counter shows any value, the cycle began today and the category is one
\* that does not look at the received bytes
InitAccum ==
    /\ \E total \in 0..(Modulus - 1), last \in 0..(Modulus - 1) :
        config = [NewConfig(5, "upload", "telegram") EXCEPT
                    !.Statistics.TotalReceive = total,
                    !.Statistics.LastReceive = last,
                    !.Statistics.LastReset = [y |-> 2024, m |-> 1, d |-> 5]]
    /\ disk = config
    /\ pre = config
    /\ pc = "check"
    /\ now = DateLocal(2024, 1, 5) + 10
    /\ env = [Local |-> 0, Times |-> {}, meter |-> FALSE]
    /\ netdev \in [ReceiveBytes : 0..(Modulus - 1), TransmitBytes : {0}]
    /\ act = NoAct
    /\ delivered = NoneSent
    /\ faults = 0
    /\ todayRx = 0
    /\ cycleRx = 0
    /\ lost = << >>

NextAccum ==
    \/ CounterReset
    \/ MainNoReset
    \/ MainReadError
    \/ MainSample
    \/ MainSleep

SpecAccum == InitAccum /\ [][NextAccum]_vars

\* the first run and the next boundary of a cycle that starts on the 5th
LiveDays == { DateLocal(2024, 2, 5) + 10 }

\* one category and one channel, for the properties of what eventually happens
InitLive ==
    InitWith({5}, {"download"}, {"telegram"}, {0}, LiveDays, FALSE, 0)

\* the loop of lines 429-481 never stops between two of its steps, and a
\* notification that is due again and again is not lost every time
Fairness ==
    /\ WF_vars(MainReset \/ MainNoReset)
    /\ WF_vars(MainSample \/ MainReadError)
    /\ WF_vars(MainSleep)
    /\ SF_vars(MainSample /\ act'.threshold = "ok")
    /\ SF_vars(MainSample /\ act'.ratio = "ok")

SpecLive == InitLive /\ [][Next]_vars /\ Fairness

\* the program with one write of the file that fails, and with restarts
InitCrash ==
    InitWith({5}, {"download"}, {"telegram"}, {0}, LiveDays, FALSE, 1)

NextCrash ==
    \/ Next
    \/ Restart

SpecCrash == InitCrash /\ [][NextCrash]_vars

(***************************************************************************)
(* Vocabulary of the properties.                                           *)
(***************************************************************************)
st == config.Statistics

\* the step of MainReset: the cycle is closed
Closes == pc = "check" /\ pc' = "sample" /\ act'.summary # "none"

\* the step of MainSample: the counters were read and accounted
Samples == pc = "sample" /\ act'.read = "ok"

\* the sample to be read shows a counter below its last value
RxDrops == netdev.ReceiveBytes < st.LastReceive
TxDrops == netdev.TransmitBytes < st.LastTransmit

\* the state is the one an iteration that read the counters has left, and the
\* iteration did not close the cycle, so that pre is the state it sampled in
Sampled == pc \in {"sleep", "off"} /\ act.read = "ok" /\ act.summary = "none"

(***************************************************************************)
(* C1.  Reset resilience.  As stated: on a sample that lies below the last *)
(* value, the total becomes total + last + sample.                         *)
(***************************************************************************)
C1_TotalPlusLastPlusSample ==
    [][Samples =>
        /\ RxDrops => st.TotalReceive' =
              Add(Add(st.TotalReceive, st.LastReceive), netdev.ReceiveBytes)
        /\ TxDrops => st.TotalTransmit' =
              Add(Add(st.TotalTransmit, st.LastTransmit), netdev.TransmitBytes)
      ]_vars

\* C1 as amended: on a sample that lies below the last value, the total
\* becomes total + sample (mod 2^64), for received and for transmitted bytes.
C1_TotalPlusSample ==
    [][Samples =>
        /\ RxDrops => st.TotalReceive' = Add(st.TotalReceive, netdev.ReceiveBytes)
        /\ TxDrops => st.TotalTransmit' = Add(st.TotalTransmit, netdev.TransmitBytes)
      ]_vars

\* a sample below the last value was accounted to a total that was not zero
C1_Witness ==
    /\ Sampled
    /\ st.LastReceive < pre.Statistics.LastReceive
    /\ st.LastReceive > 0
    /\ pre.Statistics.TotalReceive > 0
    /\ st.TotalReceive = pre.Statistics.TotalReceive + st.LastReceive

(***************************************************************************)
(* C2.  Monotonic accrual.  A sample that is not below the last value adds *)
(* its distance to the last value and becomes the last value; and no step  *)
(* other than a cycle close or a sample below the last value changes       *)
(* total - last.  So over any run of such ticks in one cycle the total is  *)
(* its start plus the sum of the deltas, which is the final sample minus   *)
(* the last value held before the first tick.                              *)
(***************************************************************************)
C2_MonotonicAccrual ==
    [][/\ (Samples /\ ~RxDrops) =>
            /\ st.TotalReceive' = st.TotalReceive + (netdev.ReceiveBytes - st.LastReceive)
            /\ st.LastReceive' = netdev.ReceiveBytes
       /\ (Samples /\ ~TxDrops) =>
            /\ st.TotalTransmit' =
                  st.TotalTransmit + (netdev.TransmitBytes - st.LastTransmit)
            /\ st.LastTransmit' = netdev.TransmitBytes
       /\ (~Closes /\ ~(Samples /\ RxDrops)) =>
            st.TotalReceive' - st.LastReceive' = st.TotalReceive - st.LastReceive
       /\ (~Closes /\ ~(Samples /\ TxDrops)) =>
            st.TotalTransmit' - st.LastTransmit' = st.TotalTransmit - st.LastTransmit
      ]_vars

\* a tick added a delta to a total that earlier deltas had made
C2_Witness ==
    /\ Sampled
    /\ pre.Statistics.LastReceive > 0
    /\ pre.Statistics.TotalReceive > 0
    /\ st.LastReceive > pre.Statistics.LastReceive
    /\ st.TotalReceive =
          pre.Statistics.TotalReceive + st.LastReceive - pre.Statistics.LastReceive

(***************************************************************************)
(* C3.  At most one alert per cycle.  A tick that finds the flag of the    *)
(* active channel set does not call the notifier for that warning; the     *)
(* flag stays set on every step that does not close the cycle; and in one  *)
(* cycle each warning is delivered at most once.                           *)
(***************************************************************************)
C3_AtMostOneAlert ==
    /\ [](delivered.threshold <= 1 /\ delivered.ratio <= 1)
    /\ [][/\ (pc = "sample" /\ thresholdStatus(config)) => act'.threshold = "none"
          /\ (pc = "sample" /\ ratioStatus(config)) => act'.ratio = "none"
          /\ (thresholdStatus(config) /\ ~Closes) => thresholdStatus(config')
          /\ (ratioStatus(config) /\ ~Closes) => ratioStatus(config')
         ]_vars

\* both warnings were delivered, the power-off failed, and a later tick with
\* the usage at or above the ratio limit has sent nothing
C3_Witness ==
    /\ Sampled
    /\ thresholdStatus(pre) /\ ratioStatus(pre)
    /\ delivered.threshold = 1 /\ delivered.ratio = 1
    /\ reached(config, config.Comparison.Ratio)
    /\ usage(config) > usage(pre)
    /\ act.threshold = "none" /\ act.ratio = "none"

(***************************************************************************)
(* C4.  Retry on delivery failure.  A tick of a known category whose usage *)
(* is at or above a limit while the flag is not set calls the notifier; a  *)
(* failed call leaves the flag unset, and a failed shutdown warning is     *)
(* followed by no power-off.                                               *)
(***************************************************************************)
C4_RetryOnFailure ==
    [][Samples =>
        /\ ( /\ config.Comparison.Category \in Categories
             /\ reached(config', config.Comparison.Ratio)
             /\ ~ratioStatus(config) ) => act'.ratio # "none"
        /\ ( /\ config.Comparison.Category \in Categories
             /\ reached(config', config.Comparison.Threshold)
             /\ ~thresholdStatus(config) ) => act'.threshold # "none"
        /\ act'.ratio = "fail" =>
             ~ratioStatus(config') /\ act'.poweroff = "none" /\ pc' # "off"
        /\ act'.threshold = "fail" => ~thresholdStatus(config')
      ]_vars

\* the usage was at the ratio limit with the flag unset when the tick began,
\* so an earlier shutdown warning had failed; this tick's warning went out
C4_Witness ==
    /\ Sampled
    /\ reached(pre, pre.Comparison.Ratio)
    /\ ~ratioStatus(pre)
    /\ act.ratio = "ok"
    /\ ratioStatus(config)

(***************************************************************************)
(* C5.  Power-off.  The power-off command runs only in a tick whose usage  *)
(* is at or above the ratio limit, that found the ratio flag unset and     *)
(* whose shutdown warning was delivered, and the flag is set by then; in   *)
(* one cycle it runs at most once, also when it failed.                    *)
(***************************************************************************)
C5_PowerOffOnce ==
    /\ [](delivered.poweroff <= 1)
    /\ [][/\ (pc = "sample" /\ act'.poweroff # "none") =>
                /\ reached(config', config.Comparison.Ratio)
                /\ ~ratioStatus(config)
                /\ act'.ratio = "ok"
                /\ ratioStatus(config')
          /\ pc' = "off" => (pc = "sample" /\ act'.poweroff = "ok")
          /\ (delivered.poweroff >= 1 /\ ~Closes) =>
                delivered.poweroff' = delivered.poweroff
         ]_vars

\* the power-off command failed, and a later tick at or above the ratio limit
\* has not run it again
C5_Witness ==
    /\ Sampled
    /\ pc = "sleep"
    /\ delivered.poweroff = 1
    /\ ratioStatus(pre)
    /\ reached(config, config.Comparison.Ratio)
    /\ act.poweroff = "none"

\* calendar order of two dates
DateBefore(a, b) ==
    \/ a.y < b.y
    \/ a.y = b.y /\ a.m < b.m
    \/ a.y = b.y /\ a.m = b.m /\ a.d < b.d

\* the start day of today's month, clamped to the length of the month
ResetDateOf(t) ==
    LET today == Format(t)
        last == DaysIn(today.y, today.m)
    IN [y |-> today.y, m |-> today.m,
        d |-> IF config.StartDay > last THEN last ELSE config.StartDay]

(***************************************************************************)
(* C6.  Idempotent cycle close.  On a day on or after the reset date of    *)
(* the month, with a cycle start date before that reset date, checkReset   *)
(* returns true; once the cycle has been closed today (the cycle start     *)
(* date is today), checkReset returns false.                               *)
(***************************************************************************)
C6_IdempotentClose ==
    /\ ( /\ ~ParseFails(st.LastReset)
         /\ DateBefore(st.LastReset, ResetDateOf(now))
         /\ ~DateBefore(Format(now), ResetDateOf(now)) ) => checkReset(config, now)
    /\ st.LastReset = Format(now) => ~checkReset(config, now)

(***************************************************************************)
(* C7.  closeCycle postcondition.  The step that closes the cycle leaves   *)
(* both totals zero, the flags of both channels false and the cycle start  *)
(* date equal to today, whatever the result of sending the summary.        *)
(***************************************************************************)
C7_CloseCyclePost ==
    [][Closes =>
        /\ st.TotalReceive' = 0 /\ st.TotalTransmit' = 0
        /\ ~thresholdStatus(config') /\ ~ratioStatus(config')
        /\ ~config'.Message.Telegram.ThresholdStatus
        /\ ~config'.Message.Telegram.RatioStatus
        /\ ~config'.Message.Gotify.ThresholdStatus
        /\ ~config'.Message.Gotify.RatioStatus
        /\ st.LastReset' = Format(now)
        /\ act'.summary \in {"ok", "fail"}
      ]_vars

\* the cycle that began on 2024-01-05 was closed on 2024-02-05 with totals
\* and both flags set, and the summary could not be sent
C7_Witness ==
    /\ pc = "sample"
    /\ act.summary = "fail"
    /\ pre.Statistics.LastReset = [y |-> 2024, m |-> 1, d |-> 5]
    /\ st.LastReset = [y |-> 2024, m |-> 2, d |-> 5]
    /\ pre.Statistics.TotalReceive > 0 /\ pre.Statistics.TotalTransmit > 0
    /\ thresholdStatus(pre) /\ ratioStatus(pre)
    /\ st.TotalReceive = 0 /\ st.TotalTransmit = 0
    /\ ~thresholdStatus(config) /\ ~ratioStatus(config)

(***************************************************************************)
(* C8.  Source unavailable.  As stated: after a tick whose counter read    *)
(* fails, totals, last values, cycle start date and flags are those held   *)
(* before the tick.                                                        *)
(***************************************************************************)
C8_StateAsBeforeTick ==
    [][(pc = "sample" /\ act'.read = "fail") => config' = pre]_vars

\* C8 as amended: the failed read changes nothing and ends the iteration, so
\* the state after the tick is the one the tick's cycle check left: the state
\* before the tick when no cycle close was due, the freshly reset state (last
\* values kept) when one was due.
C8_StateAsAfterCycleCheck ==
    [][(pc = "sample" /\ act'.read = "fail") =>
        /\ config' = config
        /\ disk' = disk
        /\ pc' = "sleep"
        /\ act'.threshold = "none" /\ act'.ratio = "none" /\ act'.poweroff = "none"
        /\ act.summary = "none" => config' = pre
        /\ act.summary # "none" =>
              config' = resetStatistics(pre, Format(now))
      ]_vars

\* a tick closed a cycle that had totals and then failed to read the counters
C8_Witness ==
    /\ pc = "sleep"
    /\ act.read = "fail"
    /\ act.summary # "none"
    /\ pre.Statistics.TotalReceive > 0
    /\ st.TotalReceive = 0
    /\ st.LastReceive = pre.Statistics.LastReceive

(***************************************************************************)
(* C9.  The totals never decrease on a step that does not close the cycle, *)
(* whatever the samples are.                                               *)
(***************************************************************************)
C9_TotalsNonDecreasing ==
    [][Closes \/ ( /\ st.TotalReceive' >= st.TotalReceive
                   /\ st.TotalTransmit' >= st.TotalTransmit )]_vars

\* a sample of transmitted bytes below the last value has been accounted to
\* a total that was not zero
C9_Witness ==
    /\ Sampled
    /\ st.LastTransmit < pre.Statistics.LastTransmit
    /\ pre.Statistics.TotalTransmit > 0
    /\ st.TotalTransmit >= pre.Statistics.TotalTransmit
    /\ st.LastReceive < pre.Statistics.LastReceive
    /\ st.TotalReceive >= pre.Statistics.TotalReceive

(***************************************************************************)
(* C10.  Once a cycle has begun, total_received is at most the number of   *)
(* bytes the interface has received since the cycle start date began.      *)
(***************************************************************************)
C10_TotalWithinReceived ==
    (env.meter /\ ~ParseFails(st.LastReset)) => st.TotalReceive <= cycleRx

(***************************************************************************)
(* C11.  Clamped start day.  In a month that is shorter than the start     *)
(* day, the reset date is the last day of the month: checkReset returns    *)
(* false on every earlier day of the month, and on the last day it returns *)
(* true for a cycle start date before that day, so that the tick of that   *)
(* day closes the cycle.                                                   *)
(***************************************************************************)
C11_ClampedStartDay ==
    LET today == Format(now)
        last == DaysIn(today.y, today.m)
        lastDay == [y |-> today.y, m |-> today.m, d |-> last]
    IN (config.StartDay > last /\ ~ParseFails(st.LastReset)) =>
        /\ ResetDateOf(now) = lastDay
        /\ today.d < last => ~checkReset(config, now)
        /\ (today.d = last /\ DateBefore(st.LastReset, lastDay)) =>
              checkReset(config, now)
        /\ (today.d = last /\ DateBefore(pre.Statistics.LastReset, lastDay)
               /\ ~ParseFails(pre.Statistics.LastReset) /\ pc = "sample") =>
              (act.summary # "none" /\ st.LastReset = lastDay)

\* with start day 31, the cycle that began in January was closed on April 30
C11_Witness ==
    /\ config.StartDay = 31
    /\ pc = "sample"
    /\ act.summary # "none"
    /\ pre.Statistics.LastReset = [y |-> 2024, m |-> 1, d |-> 5]
    /\ Format(now) = [y |-> 2024, m |-> 4, d |-> 30]
    /\ st.LastReset = [y |-> 2024, m |-> 4, d |-> 30]

(***************************************************************************)
(* C12.  Net effect of the two-step update.  On a sample that lies below   *)
(* the last value, over the whole range of the unsigned fields, the total  *)
(* becomes exactly (total + sample) mod 2^64 and the last value becomes    *)
(* the sample: the wrapped difference sample - last leaves nothing else in *)
(* the total.                                                              *)
(***************************************************************************)
C12_NetEffectOnReset ==
    [][Samples =>
        /\ RxDrops =>
              /\ st.TotalReceive' = (st.TotalReceive + netdev.ReceiveBytes) % Modulus
              /\ st.LastReceive' = netdev.ReceiveBytes
        /\ TxDrops =>
              /\ st.TotalTransmit' = (st.TotalTransmit + netdev.TransmitBytes) % Modulus
              /\ st.LastTransmit' = netdev.TransmitBytes
      ]_vars

\* a sample below the last value was accounted where the first step, total +
\* last, went past the end of the range, and the sum total + sample did not
C12_Witness ==
    /\ Sampled
    /\ st.LastReceive < pre.Statistics.LastReceive
    /\ st.LastReceive > 0
    /\ pre.Statistics.TotalReceive + pre.Statistics.LastReceive >= Modulus
    /\ pre.Statistics.TotalReceive + st.LastReceive < Modulus
    /\ st.TotalReceive = pre.Statistics.TotalReceive + st.LastReceive

(***************************************************************************)
(* C13.  Ordering of cycle close and accumulation.  The step that closes   *)
(* the cycle comes before the sample of the same tick and leaves the last  *)
(* values as they are; after a tick that closed the cycle and read the     *)
(* counters, each total is that tick's own delta: the sample minus the     *)
(* last value held before the tick, or the sample itself when it lies      *)
(* below that last value.  Nothing of the old total is carried over.       *)
(***************************************************************************)
C13_CloseBeforeAccumulate ==
    /\ [][Closes => ( /\ st.LastReceive' = st.LastReceive
                      /\ st.LastTransmit' = st.LastTransmit
                      /\ pc' = "sample" )]_vars
    /\ []( ( pc \in {"sleep", "off"} /\ act.summary # "none" /\ act.read = "ok" ) =>
            /\ st.LastReceive = netdev.ReceiveBytes
            /\ st.LastTransmit = netdev.TransmitBytes
            /\ st.TotalReceive =
                  IF st.LastReceive < pre.Statistics.LastReceive
                  THEN st.LastReceive
                  ELSE st.LastReceive - pre.Statistics.LastReceive
            /\ st.TotalTransmit =
                  IF st.LastTransmit < pre.Statistics.LastTransmit
                  THEN st.LastTransmit
                  ELSE st.LastTransmit - pre.Statistics.LastTransmit )

\* a cycle with a total was closed, and the tick's sample lay above a last
\* value that was not zero: the new total is the difference alone
C13_Witness ==
    /\ pc = "sleep"
    /\ act.summary # "none" /\ act.read = "ok"
    /\ ~ParseFails(pre.Statistics.LastReset)
    /\ pre.Statistics.TotalReceive > 1
    /\ pre.Statistics.LastReceive > 0
    /\ st.LastReceive > pre.Statistics.LastReceive
    /\ st.TotalReceive = st.LastReceive - pre.Statistics.LastReceive

(***************************************************************************)
(* C14.  Order of the alert states.  With the ratio not below the          *)
(* threshold, the shutdown flag of the active channel is never set while   *)
(* its warning flag is not set.                                            *)
(***************************************************************************)
C14_RatioOnlyAfterThreshold ==
    config.Comparison.Ratio >= config.Comparison.Threshold =>
        (ratioStatus(config) => thresholdStatus(config))

(***************************************************************************)
(* C15.  The alert flags within a cycle.  A flag goes from false to true   *)
(* only in a tick that delivered the corresponding notification, and only  *)
(* when none was delivered before in the cycle; a flag of either channel   *)
(* goes from true to false only on the step that closes the cycle.         *)
(***************************************************************************)
C15_FlagsMonotone ==
    [][/\ (~thresholdStatus(config) /\ thresholdStatus(config')) =>
            /\ pc = "sample" /\ act'.threshold = "ok"
            /\ delivered.threshold = 0 /\ delivered'.threshold = 1
       /\ (~ratioStatus(config) /\ ratioStatus(config')) =>
            /\ pc = "sample" /\ act'.ratio = "ok"
            /\ delivered.ratio = 0 /\ delivered'.ratio = 1
       /\ \A ch \in {"Telegram", "Gotify"} :
            /\ (~config.Message[ch].ThresholdStatus
                  /\ config'.Message[ch].ThresholdStatus) => act'.threshold = "ok"
            /\ (~config.Message[ch].RatioStatus
                  /\ config'.Message[ch].RatioStatus) => act'.ratio = "ok"
            /\ (config.Message[ch].ThresholdStatus
                  /\ ~config'.Message[ch].ThresholdStatus) => Closes
            /\ (config.Message[ch].RatioStatus
                  /\ ~config'.Message[ch].RatioStatus) => Closes
      ]_vars

\* the warning flag was set in an earlier tick; this tick accounted more
\* bytes, its shutdown warning failed, and the warning flag is still set
C15_Witness ==
    /\ Sampled
    /\ thresholdStatus(pre) /\ ~ratioStatus(pre)
    /\ usage(config) > usage(pre)
    /\ act.threshold = "none" /\ act.ratio = "fail"
    /\ thresholdStatus(config) /\ ~ratioStatus(config)

\* a warning is due: the usage is at or above the limit, the flag is not set
ThresholdPending ==
    reached(config, config.Comparison.Threshold) /\ ~thresholdStatus(config)

RatioPending ==
    reached(config, config.Comparison.Ratio) /\ ~ratioStatus(config)

\* the warning flag is set, or the cycle was closed and the usage is below
\* the limit again
ThresholdSettled ==
    thresholdStatus(config) \/ ~reached(config, config.Comparison.Threshold)

\* the shutdown flag is set and the power-off was attempted, or the cycle
\* was closed and the usage is below the limit again
RatioSettled ==
    \/ ratioStatus(config) /\ delivered.poweroff >= 1
    \/ ~reached(config, config.Comparison.Ratio)

(***************************************************************************)
(* C16.  Delivery liveness.  While the usage of the cycle is at or above   *)
(* the threshold limit and the warning flag is not set, the flag is        *)
(* eventually set, unless the cycle is closed or the host is powered off   *)
(* first; while the usage is at or above the ratio limit, the power-off is *)
(* eventually attempted, unless the cycle is closed first.  This assumes   *)
(* that the loop keeps running and that a notification that is due on      *)
(* tick after tick is delivered on one of them.                            *)
(***************************************************************************)
C16_DeliveryLiveness ==
    /\ ThresholdPending ~> (ThresholdSettled \/ pc = "off")
    /\ RatioPending ~> RatioSettled

\* the tick began at or above both limits with neither flag set, so earlier
\* sends had failed; it delivered both notifications and ran the power-off
C16_Witness ==
    /\ pc \in {"sleep", "off"}
    /\ act.read = "ok" /\ act.summary = "none"
    /\ reached(pre, pre.Comparison.Ratio)
    /\ ~thresholdStatus(pre) /\ ~ratioStatus(pre)
    /\ act.threshold = "ok" /\ act.ratio = "ok" /\ act.poweroff # "none"
    /\ thresholdStatus(config) /\ ratioStatus(config)
    /\ delivered.poweroff = 1

(***************************************************************************)
(* C17.  Unknown category.  A tick whose category is none of download,     *)
(* upload, upload+download, anymax accounts and saves its sample and does  *)
(* nothing else: no notification is sent, the power-off is not run, the    *)
(* flags of both channels stay as they are, and the loop goes on to the    *)
(* next tick.                                                              *)
(***************************************************************************)
C17_UnknownCategory ==
    [][( /\ Samples
         /\ config.Comparison.Category
               \notin {"download", "upload", "upload+download", "anymax"} ) =>
        /\ act'.threshold = "none" /\ act'.ratio = "none" /\ act'.poweroff = "none"
        /\ delivered' = delivered
        /\ config'.Message = config.Message
        /\ config' = accumulateStats(config, netdev)
        /\ disk' = config'
        /\ pc' = "sleep"
      ]_vars

\* with a category the switch does not know, a tick has accounted bytes
\* that take both totals to the ratio limit, and has sent nothing
C17_Witness ==
    /\ Sampled
    /\ pc = "sleep"
    /\ config.Comparison.Category = "total"
    /\ st.TotalReceive > pre.Statistics.TotalReceive
    /\ st.TotalReceive * 100
          >= config.Comparison.Limit * config.Comparison.Ratio * bytesToGB
    /\ st.TotalTransmit * 100
          >= config.Comparison.Limit * config.Comparison.Ratio * bytesToGB
    /\ act.threshold = "none" /\ act.ratio = "none" /\ act.poweroff = "none"
    /\ ~thresholdStatus(config) /\ ~ratioStatus(config)

(***************************************************************************)
(* C18.  Recovery after a lost write.  A write of the file fails, the      *)
(* process is restarted and loads the record last written.  If the record  *)
(* that was lost belongs to the same cycle, no counter has dropped between *)
(* the written record, the lost record and the sample of the first tick    *)
(* after the restart, and that tick does not close the cycle, then the     *)
(* totals after that tick are those the lost record would have led to:     *)
(* its total plus the distance of the sample to its last value.            *)
(***************************************************************************)
C18_CrashRecovery ==
    [][( /\ Samples
         /\ Len(lost) = 1
         /\ act.summary = "none"
         /\ lost[1].Statistics.LastReset = st.LastReset
         /\ st.LastReceive <= lost[1].Statistics.LastReceive
         /\ lost[1].Statistics.LastReceive <= netdev.ReceiveBytes
         /\ st.LastTransmit <= lost[1].Statistics.LastTransmit
         /\ lost[1].Statistics.LastTransmit <= netdev.TransmitBytes ) =>
        /\ st.TotalReceive' = lost[1].Statistics.TotalReceive
              + (netdev.ReceiveBytes - lost[1].Statistics.LastReceive)
        /\ st.TotalTransmit' = lost[1].Statistics.TotalTransmit
              + (netdev.TransmitBytes - lost[1].Statistics.LastTransmit)
      ]_vars

\* the restart discarded a record with more received bytes than the file
\* held; the first tick after it has accounted those and newer ones
C18_Witness ==
    /\ pc = "sleep"
    /\ Len(lost) = 1
    /\ act.read = "ok" /\ act.summary = "none"
    /\ lost[1].Statistics.LastReset = st.LastReset
    /\ pre.Statistics.TotalReceive > 0
    /\ lost[1].Statistics.TotalReceive > pre.Statistics.TotalReceive
    /\ lost[1].Statistics.LastReceive > pre.Statistics.LastReceive
    /\ st.LastReceive > lost[1].Statistics.LastReceive
    /\ st.TotalReceive = lost[1].Statistics.TotalReceive
          + (st.LastReceive - lost[1].Statistics.LastReceive)

\* the start day of month m of year y, clamped to the length of the month
BoundaryOf(y, m) ==
    [y |-> y, m |-> m,
     d |-> IF config.StartDay > DaysIn(y, m) THEN DaysIn(y, m) ELSE config.StartDay]

\* some month's boundary lies after the cycle start date and not after today
BoundaryPassed ==
    \E m \in 1..12 :
        /\ DateBefore(st.LastReset, BoundaryOf(BaseYear, m))
        /\ ~DateBefore(Format(now), BoundaryOf(BaseYear, m))

(***************************************************************************)
(* C19.  No missed rollover.  Whenever a boundary of some month lies after *)
(* the cycle start date and on or before today, checkReset returns true,   *)
(* so that the next tick closes the cycle; also on a day before the start  *)
(* day of the current month, when the boundary passed in an earlier month. *)
(***************************************************************************)
C19_NoMissedRollover ==
    (~ParseFails(st.LastReset) /\ BoundaryPassed) => checkReset(config, now)

====
